---- MODULE Spec2Model ----
(***************************************************************************)
(* The pull-request labeler of src/src/main.ts: run() reads its inputs and *)
(* the pull request of the event, fetches the changed files and the label  *)
(* configuration, selects the labels whose globs and status filter match   *)
(* a changed file, and adds them to the pull request.                      *)
(***************************************************************************)
EXTENDS Integers, Sequences, FiniteSets, TLC

\* ------------------------------------------------------------------ bounds
MaxFiles == 2
MaxLabels == 2
MaxElems == 2

\* --------------------------------------------------------- JavaScript values
\* A value of the loaded configuration, tagged by its typeof / shape.
Str(s) == [t |-> "string", s |-> s]
Num == [t |-> "number"]
Null == [t |-> "null"]
Undefined == [t |-> "undefined"]
Arr(a) == [t |-> "array", a |-> a]
\* An object is modelled by its "on" property (Undefined when the key is absent).
Obj(on) == [t |-> "object", on |-> on]

NoError == [name |-> "", message |-> <<>>]
Error(message) == [name |-> "Error", message |-> message]
TypeError(message) == [name |-> "TypeError", message |-> message]

\* main.ts:6
ALL_STATUS == <<Str("added"), Str("modified"), Str("removed")>>

Range(f) == {f[i] : i \in DOMAIN f}
SeqsUpTo(S, n) == UNION {[1..k -> S] : k \in 0..n}

\* ------------------------------------------------------------ glob matching
\* path.split('/') of the file names and glob patterns the model uses.
SlashSplit(s) ==
  CASE s = "README.md" -> <<"README.md">>
    [] s = "src/a.ts" -> <<"src", "a.ts">>
    [] s = ".github/x.md" -> <<".github", "x.md">>
    [] s = "*.md" -> <<"*.md">>
    [] s = "src/**" -> <<"src", "**">>
    [] s = "**/*.md" -> <<"**", "*.md">>
    [] OTHER -> <<s>>

\* A path part that starts with a dot (minimatch runs with dot: false).
IsDot(f) == f \in {".github", ".", ".."}

\* One path part against one pattern part: a literal part is compared with
\* ===, "*" and "*.md" are the regular expressions minimatch compiles.
SegMatches(p, f) ==
  CASE p = "*" -> f # "" /\ ~IsDot(f)
    [] p = "*.md" -> f \in {"README.md", "x.md"}
    [] OTHER -> p = f

RECURSIVE MatchOne(_, _)
RECURSIVE GlobStarScan(_, _)
\* Minimatch.matchOne(file, pattern, partial = false)
MatchOne(file, pattern) ==
  IF pattern = <<>> THEN file = <<>> \/ file = <<"">>
  ELSE IF file = <<>> THEN FALSE
  ELSE IF Head(pattern) = "**"
    THEN IF Len(pattern) = 1
           THEN \A i \in DOMAIN file : ~IsDot(file[i])
           ELSE GlobStarScan(file, Tail(pattern))
    ELSE SegMatches(Head(pattern), Head(file))
         /\ MatchOne(Tail(file), Tail(pattern))
\* the while (fr < fl) loop of the GLOBSTAR case
GlobStarScan(file, rest) ==
  IF file = <<>> THEN FALSE
  ELSE IF MatchOne(file, rest) THEN TRUE
  ELSE IF IsDot(Head(file)) THEN FALSE
  ELSE GlobStarScan(Tail(file), rest)

\* new Minimatch(glob).match(filename)
MinimatchMatch(glob, filename) == MatchOne(SlashSplit(filename), SlashSplit(glob))

\* Includes with the status filter dropped.
Includes_any(status, s) == TRUE

\* status.includes(changedFile.status): SameValueZero against a string
Includes(status, s) == \E i \in DOMAIN status : status[i] = Str(s)

\* ---------------------------------------------------------------- checkGlobs
\* checkFiles that gives up after the first file it looks at.
checkFiles_firstOnly(changedFiles, glob, status, j) ==
  /\ j <= Len(changedFiles)
  /\ MinimatchMatch(glob, changedFiles[j].filename)
  /\ Includes(status, changedFiles[j].status)

RECURSIVE checkFiles(_, _, _, _)
\* the inner loop of checkGlobs (main.ts:151-160) from file j on
checkFiles(changedFiles, glob, status, j) ==
  IF j > Len(changedFiles) THEN FALSE
  ELSE IF MinimatchMatch(glob, changedFiles[j].filename)
          /\ Includes(status, changedFiles[j].status)
    THEN TRUE
    ELSE checkFiles(changedFiles, glob, status, j + 1)

RECURSIVE checkGlobsFrom(_, _, _, _)
\* the outer loop of checkGlobs (main.ts:148-162) from glob i on
checkGlobsFrom(changedFiles, globs, status, i) ==
  IF i > Len(globs) THEN FALSE
  ELSE IF checkFiles(changedFiles, globs[i], status, 1) THEN TRUE
  ELSE checkGlobsFrom(changedFiles, globs, status, i + 1)

checkGlobs(changedFiles, globs, status) ==
  checkGlobsFrom(changedFiles, globs, status, 1)

\* ------------------------------------------------------------ config parser
\* The labels of the model; two of them are canonical array indices.
Labels == {"docs", "2", "10"}
IsArrayIndex(label) == label \in {"2", "10"}
IndexValue(label) == IF label = "2" THEN 2 ELSE 10

RECURSIVE SortedIndexKeys(_, _)
\* the positions in S of a configuration, by ascending numeric key
SortedIndexKeys(doc, S) ==
  IF S = {} THEN <<>>
  ELSE LET m == CHOOSE i \in S :
                  \A j \in S : IndexValue(doc[i].key) <= IndexValue(doc[j].key)
       IN <<m>> \o SortedIndexKeys(doc, S \ {m})

\* The order in which `for (const label in configObject)` visits the
\* properties of the loaded object: integer-like keys first, ascending, then
\* the other keys in the order they were created (document order).
ForInOrder(doc) ==
  SortedIndexKeys(doc, {i \in DOMAIN doc : IsArrayIndex(doc[i].key)})
    \o SelectSeq([i \in DOMAIN doc |-> i], LAMBDA i : ~IsArrayIndex(doc[i].key))

Thrown(error) == [ok |-> FALSE, error |-> error, globs |-> <<>>, status |-> <<>>]

RECURSIVE ParseElements_firstOn(_, _, _, _)
\* ParseElements that keeps the first `on` entry instead of the last.
ParseElements_firstOn(a, temp, globs, status) ==
  IF temp > Len(a) THEN [ok |-> TRUE, error |-> NoError, globs |-> globs, status |-> status]
  ELSE LET e == a[temp] IN
    IF e.t = "string" THEN ParseElements_firstOn(a, temp + 1, Append(globs, e.s), status)
    ELSE IF e.t \in {"null", "undefined"}
      THEN Thrown(TypeError(<<"Cannot read property 'on' of", e.t>>))
    ELSE LET on == IF e.t = "object" THEN e.on ELSE Undefined
             keep == status # ALL_STATUS IN
      IF on.t = "string"
        THEN ParseElements_firstOn(a, temp + 1, globs, IF keep THEN status ELSE <<on>>)
      ELSE IF on.t = "array"
        THEN ParseElements_firstOn(a, temp + 1, globs, IF keep THEN status ELSE on.a)
      ELSE Thrown(Error(<<"found unexpected ...">>))

RECURSIVE ParseElements(_, _, _, _)
\* the loop over the elements of one label's sequence (main.ts:121-131)
ParseElements(a, temp, globs, status) ==
  IF temp > Len(a) THEN [ok |-> TRUE, error |-> NoError, globs |-> globs, status |-> status]
  ELSE LET e == a[temp] IN
    IF e.t = "string" THEN ParseElements(a, temp + 1, Append(globs, e.s), status)
    ELSE IF e.t \in {"null", "undefined"}
      THEN Thrown(TypeError(<<"Cannot read property 'on' of", e.t>>))
    ELSE LET on == IF e.t = "object" THEN e.on ELSE Undefined IN
      IF on.t = "string" THEN ParseElements(a, temp + 1, globs, <<on>>)
      ELSE IF on.t = "array" THEN ParseElements(a, temp + 1, globs, on.a)
      ELSE Thrown(Error(<<"found unexpected ...">>))

\* ParseLabel that takes a value of an unexpected type for a rule with no globs.
ParseLabel_noThrow(label, value) ==
  IF value.t = "string"
    THEN [ok |-> TRUE, error |-> NoError, globs |-> <<value.s>>, status |-> ALL_STATUS]
  ELSE IF value.t = "array" THEN ParseElements(value.a, 1, <<>>, ALL_STATUS)
  ELSE [ok |-> TRUE, error |-> NoError, globs |-> <<>>, status |-> ALL_STATUS]

\* the body of the loop over the labels (main.ts:116-137) for one label
ParseLabel(label, value) ==
  IF value.t = "string"
    THEN [ok |-> TRUE, error |-> NoError, globs |-> <<value.s>>, status |-> ALL_STATUS]
  ELSE IF value.t = "array" THEN ParseElements(value.a, 1, <<>>, ALL_STATUS)
  ELSE Thrown(Error(<<"found unexpected type for label", label,
                      "(should be string or array of globs)">>))

RECURSIVE ParseLabels(_, _, _, _)
\* the loop over the labels (main.ts:115-138): labelGlobs so far, next key k
ParseLabels(doc, order, k, labelGlobs) ==
  IF k > Len(order) THEN [ok |-> TRUE, error |-> NoError, map |-> labelGlobs]
  ELSE LET entry == doc[order[k]]
           r == ParseLabel(entry.key, entry.value)
       IN IF r.ok
            THEN ParseLabels(doc, order, k + 1,
                   Append(labelGlobs,
                          [label |-> entry.key, globs |-> r.globs, status |-> r.status]))
            ELSE [ok |-> FALSE, error |-> r.error, map |-> <<>>]

\* The Map it returns is the sequence of its entries in insertion order.
getLabelGlobMapFromObject(configObject) ==
  ParseLabels(configObject, ForInOrder(configObject), 1, <<>>)

\* ------------------------------------------------------------------ inputs
\* The changed files a pull request may report (listFiles passes the status
\* through unchanged, "renamed" included).
Files ==
  {[filename |-> "README.md", status |-> "modified"],
   [filename |-> "README.md", status |-> "renamed"],
   [filename |-> "src/a.ts", status |-> "modified"],
   [filename |-> "src/a.ts", status |-> "removed"],
   [filename |-> ".github/x.md", status |-> "modified"]}
FileLists == SeqsUpTo(Files, MaxFiles)
ParseFileLists ==
  {<<>>, <<[filename |-> "README.md", status |-> "modified"],
           [filename |-> "src/a.ts", status |-> "removed"]>>}

\* Configurations of k labels, in document order, with distinct keys.
Docs(k, Values) ==
  {[i \in 1..k |-> [key |-> ks[i], value |-> vs[i]]] :
     ks \in {f \in [1..k -> Labels] : \A i, j \in 1..k : f[i] = f[j] => i = j},
     vs \in [1..k -> Values]}

RunValues ==
  {Str("*.md"),
   Arr(<<Str("src/**"), Obj(Str("removed"))>>),
   Arr(<<Obj(Arr(<<Str("modified"), Str("renamed")>>)), Str("**/*.md"), Str("src/**")>>),
   Num}
RunConfigs == UNION {Docs(k, RunValues) : k \in 0..MaxLabels}

\* The elements a label's sequence may hold.
Elements ==
  {Str("*.md"), Str("src/**"),
   Obj(Str("removed")), Obj(Str("renamed")),
   Obj(Arr(<<>>)), Obj(Arr(<<Str("added"), Str("modified")>>)),
   Obj(Arr(<<Str("added"), Num>>)),
   Num, Null, Obj(Undefined), Obj(Num), Obj(Obj(Undefined))}
ValuesUpTo(n) ==
  {Str("*.md"), Num, Null, Obj(Undefined)} \cup {Arr(a) : a \in SeqsUpTo(Elements, n)}
\* One label with any value, or two labels with short values.
ParseConfigs == Docs(1, ValuesUpTo(MaxElems)) \cup Docs(2, ValuesUpTo(1))

\* ------------------------------------------------------------------- state
VARIABLES
  inputs,        \* which of the two required inputs the workflow supplies
  pullRequest,   \* whether the event payload carries a pull request
  pc,            \* where run() is
  changedFiles,  \* main.ts:26
  configObject,  \* main.ts:91
  labelGlobs,    \* main.ts:27
  labels,        \* main.ts:32
  calls,         \* the calls made on the client, in order
  thrownAt,      \* the call that threw, "" if none did
  error,         \* the error caught at main.ts:43
  failed         \* core.setFailed was called

vars == <<inputs, pullRequest, pc, changedFiles, configObject, labelGlobs,
          labels, calls, thrownAt, error, failed>>

Call(op, ok, arg) == [op |-> op, ok |-> ok, arg |-> arg]

Init ==
  /\ inputs \in [{"repo-token", "configuration-path"} -> BOOLEAN]
  /\ pullRequest \in BOOLEAN
  /\ pc = "start"
  /\ changedFiles = <<>>
  /\ configObject = <<>>
  /\ labelGlobs = <<>>
  /\ labels = <<>>
  /\ calls = <<>>
  /\ thrownAt = ""
  /\ error = NoError
  /\ failed = FALSE

\* throw inside the try block of run(): control goes to the catch clause
Throw(at, e) ==
  /\ pc' = "catch"
  /\ thrownAt' = at
  /\ error' = e

\* core.getInput(name, {required: true}) twice (main.ts:14-15)
GetInputs ==
  /\ pc = "start"
  /\ IF ~inputs["repo-token"]
       THEN Throw("getInput", Error(<<"Input required and not supplied:", "repo-token">>))
     ELSE IF ~inputs["configuration-path"]
       THEN Throw("getInput",
                  Error(<<"Input required and not supplied:", "configuration-path">>))
     ELSE pc' = "inputs" /\ UNCHANGED <<thrownAt, error>>
  /\ UNCHANGED <<inputs, pullRequest, changedFiles, configObject, labelGlobs,
                 labels, calls, failed>>

\* GetPrNumber without the early return.
GetPrNumber_noReturn ==
  /\ pc = "inputs"
  /\ pc' = "client"
  /\ UNCHANGED <<inputs, pullRequest, changedFiles, configObject, labelGlobs,
                 labels, calls, thrownAt, error, failed>>

\* getPrNumber and the early return (main.ts:17-21, 49-56)
GetPrNumber ==
  /\ pc = "inputs"
  /\ pc' = IF pullRequest THEN "client" ELSE "done"
  /\ UNCHANGED <<inputs, pullRequest, changedFiles, configObject, labelGlobs,
                 labels, calls, thrownAt, error, failed>>

\* getChangedFiles (main.ts:23-26, 58-79)
GetChangedFiles(Lists) ==
  /\ pc = "client"
  /\ \/ \E data \in Lists :
          /\ calls' = Append(calls, Call("listFiles", TRUE, <<>>))
          /\ changedFiles' = data
          /\ pc' = "files"
          /\ UNCHANGED <<thrownAt, error>>
     \/ /\ calls' = Append(calls, Call("listFiles", FALSE, <<>>))
        /\ Throw("listFiles", Error(<<"listFiles failed">>))
        /\ UNCHANGED changedFiles
  /\ UNCHANGED <<inputs, pullRequest, configObject, labelGlobs, labels, failed>>

\* getLabelGlobs (main.ts:27-30, 81-141)
GetLabelGlobs(Configs) ==
  /\ pc = "files"
  /\ \/ /\ calls' = Append(calls, Call("getContents", FALSE, <<>>))
        /\ Throw("getContents", Error(<<"getContents failed">>))
        /\ UNCHANGED <<configObject, labelGlobs>>
     \/ /\ calls' = Append(calls, Call("getContents", TRUE, <<>>))
        /\ Throw("safeLoad", Error(<<"YAMLException">>))
        /\ UNCHANGED <<configObject, labelGlobs>>
     \/ \E doc \in Configs :
          LET r == getLabelGlobMapFromObject(doc) IN
          /\ calls' = Append(calls, Call("getContents", TRUE, <<>>))
          /\ configObject' = doc
          /\ IF r.ok
               THEN /\ labelGlobs' = r.map
                    /\ pc' = "globs"
                    /\ UNCHANGED <<thrownAt, error>>
               ELSE /\ Throw("getLabelGlobMapFromObject", r.error)
                    /\ UNCHANGED labelGlobs
  /\ UNCHANGED <<inputs, pullRequest, changedFiles, labels, failed>>

RECURSIVE selectLabels(_, _, _)
\* the loop over labelGlobs.entries() (main.ts:32-38) from entry i on
selectLabels(map, files, i) ==
  IF i > Len(map) THEN <<>>
  ELSE (IF checkGlobs(files, map[i].globs, map[i].status)
          THEN <<map[i].label>> ELSE <<>>)
       \o selectLabels(map, files, i + 1)

SelectLabels ==
  /\ pc = "globs"
  /\ labels' = selectLabels(labelGlobs, changedFiles, 1)
  /\ pc' = "labels"
  /\ UNCHANGED <<inputs, pullRequest, changedFiles, configObject, labelGlobs,
                 calls, thrownAt, error, failed>>

\* AddLabels without the test of labels.length.
AddLabels_always ==
  /\ pc = "labels"
  /\ \/ /\ calls' = Append(calls, Call("addLabels", TRUE, labels))
        /\ pc' = "done"
        /\ UNCHANGED <<thrownAt, error>>
     \/ /\ calls' = Append(calls, Call("addLabels", FALSE, labels))
        /\ Throw("addLabels", Error(<<"addLabels failed">>))
  /\ UNCHANGED <<inputs, pullRequest, changedFiles, configObject, labelGlobs,
                 labels, failed>>

\* if (labels.length > 0) await addLabels(...) (main.ts:40-42, 165-176)
AddLabels ==
  /\ pc = "labels"
  /\ IF Len(labels) > 0
       THEN \/ /\ calls' = Append(calls, Call("addLabels", TRUE, labels))
               /\ pc' = "done"
               /\ UNCHANGED <<thrownAt, error>>
            \/ /\ calls' = Append(calls, Call("addLabels", FALSE, labels))
               /\ Throw("addLabels", Error(<<"addLabels failed">>))
       ELSE /\ pc' = "done"
            /\ UNCHANGED <<calls, thrownAt, error>>
  /\ UNCHANGED <<inputs, pullRequest, changedFiles, configObject, labelGlobs,
                 labels, failed>>

\* Catch that logs the error and forgets core.setFailed.
Catch_noSetFailed ==
  /\ pc = "catch"
  /\ pc' = "done"
  /\ UNCHANGED <<inputs, pullRequest, changedFiles, configObject, labelGlobs,
                 labels, calls, thrownAt, error, failed>>

\* catch (error) { core.error(error); core.setFailed(error.message) } (main.ts:43-46)
Catch ==
  /\ pc = "catch"
  /\ failed' = TRUE
  /\ pc' = "done"
  /\ UNCHANGED <<inputs, pullRequest, changedFiles, configObject, labelGlobs,
                 labels, calls, thrownAt, error>>

Next ==
  \/ GetInputs
  \/ GetPrNumber
  \/ GetChangedFiles(FileLists)
  \/ GetLabelGlobs(RunConfigs)
  \/ SelectLabels
  \/ AddLabels
  \/ Catch

Spec == Init /\ [][Next]_vars

\* The same run on the parser's inputs: few file lists, every shape of value.
NextParse ==
  \/ GetInputs
  \/ GetPrNumber
  \/ GetChangedFiles(ParseFileLists)
  \/ GetLabelGlobs(ParseConfigs)
  \/ SelectLabels
  \/ AddLabels
  \/ Catch

SpecParse == Init /\ [][NextParse]_vars

\* ---------------------------------------------------------------- properties
Supplied == inputs["repo-token"] /\ inputs["configuration-path"]

\* getLabelGlobMapFromObject was called on configObject
ParserCalled ==
  /\ \E i \in DOMAIN calls : calls[i].op = "getContents" /\ calls[i].ok
  /\ thrownAt # "safeLoad"
ParserThrew == thrownAt = "getLabelGlobMapFromObject"
ParserReturned == ParserCalled /\ ~ParserThrew
\* the loop over the rules has run: labels holds its result
Selected == ParserReturned /\ pc # "globs"

\* f satisfies the rule r: some glob of r matches its path and its status is
\* a member of r's status filter
Satisfies(r, f) ==
  /\ \E g \in Range(r.globs) : MinimatchMatch(g, f.filename)
  /\ Str(f.status) \in Range(r.status)

Perms(s) ==
  {[i \in DOMAIN s |-> s[p[i]]] :
     p \in {q \in [DOMAIN s -> DOMAIN s] : \A i, j \in DOMAIN s : q[i] = q[j] => i = j}}

\* C1: a rule's label is selected, and checkGlobs is true of the rule under
\* every order of its globs and of the changed files, if and only if some
\* changed file satisfies the rule.
C1_EvaluateIsExistential ==
  Selected =>
    \A k \in DOMAIN labelGlobs :
      LET r == labelGlobs[k]
          some == \E f \in Range(changedFiles) : Satisfies(r, f)
      IN /\ (r.label \in Range(labels)) = some
         /\ \A fs \in Perms(changedFiles), gs \in Perms(r.globs) :
              checkGlobs(fs, gs, r.status) = some

\* a selected rule of two globs on two files that only its last glob and the
\* last file satisfy
C1_Witness ==
  /\ Selected
  /\ Len(changedFiles) = 2
  /\ \E k \in DOMAIN labelGlobs :
       LET r == labelGlobs[k] IN
       /\ Len(r.globs) = 2
       /\ r.label \in Range(labels)
       /\ ~Satisfies(r, changedFiles[1])
       /\ ~Satisfies([r EXCEPT !.globs = <<r.globs[1]>>], changedFiles[2])

\* the label's rule is satisfied by some changed file
RuleSatisfied(label) ==
  \E k \in DOMAIN labelGlobs :
    /\ labelGlobs[k].label = label
    /\ \E f \in Range(changedFiles) : Satisfies(labelGlobs[k], f)

\* C2: the selected labels are the labels whose rule is satisfied, each once,
\* in the order in which they appear in the configuration document.
C2_LabelsInDocumentOrder ==
  Selected =>
    labels = SelectSeq([i \in DOMAIN configObject |-> configObject[i].key],
                       RuleSatisfied)

\* C3: every rule the parser returns has at least one glob and a status
\* filter that is a non-empty subset of {added, modified, removed}.
C3_RuleInvariant ==
  ParserReturned =>
    \A k \in DOMAIN labelGlobs :
      /\ Len(labelGlobs[k].globs) >= 1
      /\ Len(labelGlobs[k].status) >= 1
      /\ Range(labelGlobs[k].status) \subseteq Range(ALL_STATUS)

\* the rule the configuration value v stands for
ExpectedRule(label, v) ==
  IF v.t = "string" THEN [label |-> label, globs |-> <<v.s>>, status |-> ALL_STATUS]
  ELSE LET strings == SelectSeq(v.a, LAMBDA e : e.t = "string")
           others == {i \in DOMAIN v.a : v.a[i].t # "string"}
           last == CHOOSE i \in others : \A j \in others : j <= i
           on == v.a[last].on
       IN [label |-> label,
           globs |-> [i \in DOMAIN strings |-> strings[i].s],
           status |-> IF others = {} THEN ALL_STATUS
                      ELSE IF on.t = "string" THEN <<on>> ELSE on.a]

\* C4: of an accepted configuration, a bare string s gives globs = [s] and
\* all three statuses; a sequence gives its string elements in their order
\* and the `on` value of its last object element (a string as a one-element
\* filter), or all three statuses when it has no object element.
C4_DerivedRule ==
  ParserReturned =>
    /\ Len(labelGlobs) = Len(configObject)
    /\ \A i \in DOMAIN configObject :
         \E k \in DOMAIN labelGlobs :
           labelGlobs[k] = ExpectedRule(configObject[i].key, configObject[i].value)

\* an accepted sequence of two different `on` entries
C4_Witness ==
  /\ ParserReturned
  /\ \E i \in DOMAIN configObject :
       LET v == configObject[i].value IN
       /\ v.t = "array"
       /\ Len(v.a) = 2
       /\ v.a[1].t = "object"
       /\ v.a[2].t = "object"
       /\ v.a[1] # v.a[2]

\* the labels whose value is neither a string nor a sequence
BadLabels ==
  {configObject[i].key :
     i \in {j \in DOMAIN configObject : configObject[j].value.t \notin {"string", "array"}}}
Names(e, label) == \E j \in DOMAIN e.message : e.message[j] = label

\* C5 as stated: whenever some label's value is neither a string nor a
\* sequence, the parser throws an error whose message names such a label, no
\* rule set is returned and the run ends failed.
C5_Original ==
  (ParserCalled /\ BadLabels # {}) =>
    /\ ParserThrew
    /\ \E l \in BadLabels : Names(error, l)
    /\ labelGlobs = <<>>
    /\ (pc = "done" => failed)

\* an element of a sequence that the parser rejects
RejectedElement(e) ==
  /\ e.t # "string"
  /\ ~(e.t = "object" /\ e.on.t \in {"string", "array"})
HasRejectedElement(v) ==
  v.t = "array" /\ \E i \in DOMAIN v.a : RejectedElement(v.a[i])

\* C5 amended: whenever some label's value is neither a string nor a
\* sequence, the parser throws, no rule set is returned and the run ends
\* failed; the message names the first such label in iteration order, unless
\* a label iterated before it holds a sequence with an element the parser
\* rejects: the error is then that element's, and names no label.
C5_BadValueIsFatal ==
  (ParserCalled /\ BadLabels # {}) =>
    LET order == ForInOrder(configObject)
        bad == {k \in DOMAIN order : configObject[order[k]].key \in BadLabels}
        first == CHOOSE k \in bad : \A j \in bad : k <= j
        earlier == \E k \in 1..(first - 1) :
                     HasRejectedElement(configObject[order[k]].value)
    IN /\ ParserThrew
       /\ labelGlobs = <<>>
       /\ (pc = "done" => failed)
       /\ IF earlier
            THEN \A l \in Labels : ~Names(error, l)
            ELSE /\ error.name = "Error"
                 /\ Names(error, configObject[order[first]].key)

\* a run that ended failed on an error naming the label of a bad value
C5_Witness ==
  /\ pc = "done"
  /\ failed
  /\ ParserThrew
  /\ \E l \in BadLabels : Names(error, l)

\* an element that is neither a string nor an object whose `on` is a string
\* or a sequence of strings
MalformedElement(e) ==
  /\ e.t # "string"
  /\ ~(/\ e.t = "object"
       /\ \/ e.on.t = "string"
          \/ /\ e.on.t = "array"
             /\ \A i \in DOMAIN e.on.a : e.on.a[i].t = "string")

\* C6: whenever some label's sequence holds a malformed element, the parser
\* throws and returns no rule set.
C6_MalformedElementIsFatal ==
  (/\ ParserCalled
   /\ \E i \in DOMAIN configObject :
        LET v == configObject[i].value IN
        v.t = "array" /\ \E j \in DOMAIN v.a : MalformedElement(v.a[j]))
  => (ParserThrew /\ labelGlobs = <<>>)

MalformedConfig == thrownAt \in {"safeLoad", "getLabelGlobMapFromObject"}
CollaboratorFailure == \E i \in DOMAIN calls : ~calls[i].ok
\* no call on the client follows the failure
NothingAfterFailure ==
  /\ \A i \in DOMAIN calls : ~calls[i].ok => i = Len(calls)
  /\ MalformedConfig => \A i \in DOMAIN calls : calls[i].op # "addLabels"

\* C7 as stated: a run in which the configuration is malformed or a call on
\* the client fails ends failed, with no call after the failure; a run in
\* which neither happens never sets the failure signal.
C7_Original ==
  /\ (MalformedConfig \/ CollaboratorFailure) =>
       (NothingAfterFailure /\ (pc = "done" => failed))
  /\ ~(MalformedConfig \/ CollaboratorFailure) => ~failed

\* C7 amended: the same, but the failure signal stays unset only in a run
\* that was also given both required inputs.
C7_FailureIsFatal ==
  /\ (MalformedConfig \/ CollaboratorFailure) =>
       (NothingAfterFailure /\ (pc = "done" => failed))
  /\ (~(MalformedConfig \/ CollaboratorFailure) /\ Supplied) => ~failed

\* a run that ended failed because addLabels threw
C7_Witness ==
  /\ pc = "done"
  /\ failed
  /\ thrownAt = "addLabels"
  /\ ~calls[Len(calls)].ok

\* C8 as stated: a run with no pull request in the event ends with the
\* failure signal unset and makes no call on the client.
C8_Original ==
  ~pullRequest => (~failed /\ calls = <<>>)

\* C8 amended: a run with no pull request in the event makes no call on the
\* client, and ends with the failure signal unset if both required inputs
\* were supplied, set if one is missing.
C8_NoPullRequest ==
  ~pullRequest =>
    /\ calls = <<>>
    /\ pc \notin {"client", "files", "globs", "labels"}
    /\ (pc = "done" => (failed = ~Supplied))

\* a run with no pull request that took the early return
C8_Witness ==
  /\ ~pullRequest
  /\ pc = "done"
  /\ thrownAt = ""
  /\ ~failed

CallOrder == <<"listFiles", "getContents", "addLabels">>

\* C9: the calls on the client are a prefix of listFiles, getContents,
\* addLabels, each after the previous one succeeded; once the run is past
\* line 42, addLabels was called, with the selected labels, exactly when
\* the selected labels are not empty.
C9_CallOrder ==
  /\ Len(calls) <= Len(CallOrder)
  /\ \A i \in DOMAIN calls :
       /\ calls[i].op = CallOrder[i]
       /\ i < Len(calls) => calls[i].ok
  /\ labels = <<>> => \A i \in DOMAIN calls : calls[i].op # "addLabels"
  /\ (labels # <<>> /\ pc \in {"catch", "done"}) =>
       (Len(calls) = 3 /\ calls[3].arg = labels)

\* a finished run that made all three calls
C9_Witness ==
  /\ pc = "done"
  /\ ~failed
  /\ Len(calls) = 3
  /\ calls[3].arg = labels
  /\ Len(labels) = 2

OutsideStatus(f) == Str(f.status) \notin Range(ALL_STATUS)

\* C10: a changed file whose status is none of added, modified, removed
\* satisfies a rule only if the rule's status filter lists that very status,
\* so never a rule with the default filter; a pull request of such files
\* only gets no label from a default-filter rule.
C10_UnknownStatus ==
  Selected =>
    \A k \in DOMAIN labelGlobs :
      LET r == labelGlobs[k] IN
      /\ \A f \in Range(changedFiles) :
           (OutsideStatus(f) /\ checkGlobs(<<f>>, r.globs, r.status)) =>
             (Str(f.status) \in Range(r.status) /\ r.status # ALL_STATUS)
      /\ (r.status = ALL_STATUS /\ \A f \in Range(changedFiles) : OutsideStatus(f))
           => r.label \notin Range(labels)

\* renamed files only: a default-filter rule whose glob matches one is not
\* selected, a rule whose `on` lists "renamed" is
C10_Witness ==
  /\ Selected
  /\ changedFiles # <<>>
  /\ \A f \in Range(changedFiles) : OutsideStatus(f)
  /\ \E k \in DOMAIN labelGlobs :
       LET r == labelGlobs[k] IN
       /\ r.status = ALL_STATUS
       /\ \E g \in Range(r.globs), f \in Range(changedFiles) :
            MinimatchMatch(g, f.filename)
       /\ r.label \notin Range(labels)
  /\ \E k \in DOMAIN labelGlobs :
       /\ Str("renamed") \in Range(labelGlobs[k].status)
       /\ labelGlobs[k].label \in Range(labels)
====
